---- MODULE Spec2Model ----
(***************************************************************************)
(* Authentication and authorisation layer of the club-site REST backend   *)
(* (src/server.ts): bootstrap of the superadmin account, login and token   *)
(* issuance, the two gate middlewares, the tenant-scoped write endpoints   *)
(* and the admin-management endpoints.                                     *)
(*                                                                         *)
(* The server process runs one bootstrap (initializeDatabase) and then     *)
(* serves requests.  Two requests are in flight at a time: one login       *)
(* request and one request to a protected endpoint.  Every `await` of a    *)
(* handler is a step boundary, so the two handlers interleave at the       *)
(* store calls exactly as the event loop lets them.                        *)
(***************************************************************************)
EXTENDS Integers, Sequences, FiniteSets, TLC

\* ------------------------------------------------------------------ bounds
\* ids handed out by the users table's AUTO_INCREMENT column are 1..MaxId
MaxId == 2
\* rows the content tables (team, gallery, news, blogs) may hold in total
MaxRecords == 1
\* longest authorization header, counted in lexical atoms
MaxHeaderLen == 3

\* ------------------------------------------------------------ value domains
Clubs == {"A", "B"}
\* the value of a request body field that was not sent (JavaScript undefined)
Undefined == "undefined"
SuperEmail == "superadmin@example.com"
Emails == {SuperEmail, "a@x.com"}
DefaultPassword == "password123"
Passwords == {DefaultPassword, "wrong"}

ADMIN == "ADMIN"
SUPERADMIN == "SUPERADMIN"

JWT_SECRET == "your_default_secret"
SaltRounds == 10

\* ------------------------------------------------------------------- bcrypt
\* bcrypt.hash(password, 10): a one-way value that only bcrypt.compare relates
\* to the plaintext.
BcryptHash(password) == [alg |-> "bcrypt", cost |-> SaltRounds, of |-> password]

BcryptCompare(password, hash) == hash.alg = "bcrypt" /\ hash.of = password

\* ---------------------------------------------------------------------- jwt
\* The AdminUser payload of a token.
AdminUser(id, email, role, clubId) ==
    [id |-> id, email |-> email, role |-> role, clubId |-> clubId]

NoUser == AdminUser(0, "", "", "")

\* jwt.sign(payload, secret): the payload with a signature over it that only
\* the holder of the secret can produce.
JwtSign(payload, secret) ==
    [ch |-> "jwt", payload |-> payload, sig |-> <<payload, secret>>]

\* jwt.verify(token, secret) does not throw.
JwtVerifies(segment, secret) ==
    /\ Len(segment) = 1
    /\ segment[1].ch = "jwt"
    /\ segment[1].sig = <<segment[1].payload, secret>>

\* -------------------------------------------------------- header and split
\* A header value is a string; it is kept as the sequence of its lexical
\* atoms: a space, the word Bearer, a compact JWT, or other non-space text.
SP == [ch |-> " "]
BEARER == [ch |-> "Bearer"]
JUNK == [ch |-> "junk"]

\* String.prototype.split(' '): the maximal space-free runs, in order; two
\* adjacent spaces, or a space at either end, bound an empty run.
RECURSIVE Split(_)
Split(s) ==
    IF \A i \in 1..Len(s) : s[i] # SP
    THEN <<s>>
    ELSE LET k == CHOOSE i \in 1..Len(s) :
                      s[i] = SP /\ \A j \in 1..(i - 1) : s[j] # SP
         IN  <<SubSeq(s, 1, k - 1)>> \o Split(SubSeq(s, k + 1, Len(s)))


\* An authorization header: absent, or present with a value.
NoHeader == [present |-> FALSE, value |-> <<>>]
Header(value) == [present |-> TRUE, value |-> value]

\* req.headers.authorization?.split(' ')[1]: undefined when the header is
\* absent or has no second part, else the second part (possibly empty).
BearerToken(header) ==
    IF ~header.present
    THEN [defined |-> FALSE, text |-> <<>>]
    ELSE LET parts == Split(header.value)
         IN  IF Len(parts) >= 2
             THEN [defined |-> TRUE, text |-> parts[2]]
             ELSE [defined |-> FALSE, text |-> <<>>]

\* A truth test that takes only undefined for "no token".
FalsyUndefinedOnly(token) == ~token.defined

\* JavaScript's !token: undefined and the empty string are falsy.
Falsy(token) == ~token.defined \/ token.text = <<>>

\* --------------------------------------------------------------- responses
Response(status, text) ==
    [status |-> status, text |-> text, user |-> NoUser,
     token |-> [ch |-> "none"], admins |-> {}]

NoResponse == Response(0, "")

\* ------------------------------------------------------------------- state
VARIABLES
    phase,       \* the server process: connect, select, insert, listening,
                 \* exited (process.exit(1)) or killed
    users,       \* rows of table users
    clubAdmins,  \* rows of table club_admins
    nextId,      \* AUTO_INCREMENT of users.id
    records,     \* rows of the four content tables
    issued,      \* the tokens login has handed to clients
    pc,          \* protected request: idle, chain, handler, binding, done
    req,         \* the protected request in flight (or last answered)
    resp,        \* its response
    newUserId,   \* POST /api/admins: insertId of the account row
    lpc,         \* login request: idle, users, compare, club, done
    lreq,        \* its body {email, password}
    luser,       \* the users row login read
    lresp        \* its response

vars == <<phase, users, clubAdmins, nextId, records, issued, pc, req, resp,
          newUserId, lpc, lreq, luser, lresp>>

store == <<users, clubAdmins, nextId>>
slot == <<pc, req, resp, newUserId>>
lslot == <<lpc, lreq, luser, lresp>>

\* --------------------------------------------------------------- the gate
\* A gate that looks the token's account up in the store before trusting it.
authMiddlewareRequery(header) ==
    LET token == BearerToken(header)
    IN  IF Falsy(token)
        THEN [next |-> FALSE, user |-> NoUser,
              res |-> Response(401, "Access denied. No token provided.")]
        ELSE IF /\ JwtVerifies(token.text, JWT_SECRET)
                /\ \E u \in users : u.id = token.text[1].payload.id
        THEN [next |-> TRUE, user |-> token.text[1].payload, res |-> NoResponse]
        ELSE [next |-> FALSE, user |-> NoUser,
              res |-> Response(400, "Invalid token.")]

\* authMiddleware: the response it sends, or next() with req.user attached.
authMiddleware(header) ==
    LET token == BearerToken(header)
    IN  IF Falsy(token)
        THEN [next |-> FALSE, user |-> NoUser,
              res |-> Response(401, "Access denied. No token provided.")]
        ELSE IF JwtVerifies(token.text, JWT_SECRET)
        THEN [next |-> TRUE, user |-> token.text[1].payload, res |-> NoResponse]
        ELSE [next |-> FALSE, user |-> NoUser,
              res |-> Response(400, "Invalid token.")]

\* A role check that lets every identity through.
superadminMiddlewareOpen(user) == [next |-> TRUE, res |-> NoResponse]

\* superadminMiddleware, on the identity authMiddleware attached.
superadminMiddleware(user) ==
    IF user.role # SUPERADMIN
    THEN [next |-> FALSE,
          res |-> Response(403, "Forbidden. Superadmin access required.")]
    ELSE [next |-> TRUE, res |-> NoResponse]

\* ------------------------------------------------------------------ routes
ContentRoutes ==
    {"POST /api/clubs/:clubId/team", "POST /api/clubs/:clubId/gallery",
     "POST /api/clubs/:clubId/news", "POST /api/clubs/:clubId/blogs"}

AdminRoutes ==
    {"GET /api/admins", "POST /api/admins", "DELETE /api/admins/:adminId"}

\* A request to a protected endpoint; user is what the gate attached.
Request(route, header, clubId, email, adminId) ==
    [route |-> route, header |-> header, clubId |-> clubId, email |-> email,
     adminId |-> adminId, user |-> NoUser]

NoRequest == Request("", NoHeader, "", "", 0)

\* The middleware chain in front of a route's handler: authMiddleware, then
\* superadminMiddleware on the admin routes; the first failure answers.
Pipeline(route, header) ==
    LET auth == authMiddleware(header)
    IN  IF ~auth.next THEN auth
        ELSE IF route \in AdminRoutes
        THEN LET sup == superadminMiddleware(auth.user)
             IN  [next |-> sup.next, user |-> auth.user, res |-> sup.res]
        ELSE auth

UserRow(id, email, hash, super) ==
    [id |-> id, email |-> email, password_hash |-> hash, is_superadmin |-> super]

NoRow == UserRow(0, "", BcryptHash(""), FALSE)

NoLogin == [email |-> "", password |-> ""]

\* SELECT * FROM users WHERE is_superadmin = TRUE
SuperAdmins == {u \in users : u.is_superadmin}

\* users.email is UNIQUE: an INSERT of a taken email fails.
EmailTaken(email) == \E u \in users : u.email = email

SlotsIdle ==
    /\ pc' = "idle" /\ req' = NoRequest /\ resp' = NoResponse /\ newUserId' = 0
    /\ lpc' = "idle" /\ lreq' = NoLogin /\ luser' = NoRow /\ lresp' = NoResponse

Init ==
    /\ phase = "connect"
    /\ users = {} /\ clubAdmins = {} /\ nextId = 1
    /\ records = {}
    /\ issued = {}
    /\ pc = "idle" /\ req = NoRequest /\ resp = NoResponse /\ newUserId = 0
    /\ lpc = "idle" /\ lreq = NoLogin /\ luser = NoRow /\ lresp = NoResponse

\* --------------------------------------------------------------- bootstrap
\* A startServer that calls app.listen without awaiting the bootstrap.
GetConnectionThenListen ==
    /\ phase = "connect"
    /\ phase' = "listening"
    /\ UNCHANGED <<store, records, issued, slot, lslot>>

\* initializeDatabase, line 47: the test connection is obtained.
GetConnection ==
    /\ phase = "connect"
    /\ phase' = "select"
    /\ UNCHANGED <<store, records, issued, slot, lslot>>

\* A bootstrap that creates its superadmin whatever the query returned.
NoSuperAdminAlways(rows) == TRUE

\* Line 54: superAdmins.length === 0
NoSuperAdmin(rows) == rows = {}

\* initializeDatabase, lines 52-54: the superadmin query; with a superadmin
\* present the routine returns and startServer calls app.listen.
SelectSuperAdmins ==
    /\ phase = "select"
    /\ phase' = IF NoSuperAdmin(SuperAdmins) THEN "insert" ELSE "listening"
    /\ UNCHANGED <<store, records, issued, slot, lslot>>

\* initializeDatabase, lines 55-60, then app.listen.
InsertSuperAdmin ==
    /\ phase = "insert"
    /\ nextId <= MaxId
    /\ ~EmailTaken(SuperEmail)
    /\ users' = users \cup
          {UserRow(nextId, SuperEmail, BcryptHash(DefaultPassword), TRUE)}
    /\ nextId' = nextId + 1
    /\ phase' = "listening"
    /\ UNCHANGED <<clubAdmins, records, issued, slot, lslot>>

\* startServer's catch: a store call of the bootstrap throws and the process
\* exits before app.listen.
BootstrapFails ==
    /\ phase \in {"connect", "select", "insert"}
    /\ phase' = "exited"
    /\ UNCHANGED <<store, records, issued, slot, lslot>>

\* The process dies (crash, kill, host restart); requests in flight are lost.
Crash ==
    /\ phase \in {"connect", "select", "insert", "listening"}
    /\ phase' = "killed"
    /\ SlotsIdle
    /\ UNCHANGED <<store, records, issued>>

\* The process is started again: startServer runs from the top.
Restart ==
    /\ phase \in {"exited", "killed"}
    /\ phase' = "connect"
    /\ UNCHANGED <<store, records, issued, slot, lslot>>

\* ------------------------------------------------------------------- login
\* POST /api/login arrives with body {email, password}.
LoginRequest(email, password) ==
    /\ phase = "listening"
    /\ lpc \in {"idle", "done"}
    /\ lpc' = "users"
    /\ lreq' = [email |-> email, password |-> password]
    /\ luser' = NoRow
    /\ lresp' = NoResponse
    /\ UNCHANGED <<phase, store, records, issued, slot>>

\* An answer that tells the caller the email is unknown.
NoSuchEmailTold == Response(404, "No account with this email.")

\* Line 112: the answer when no account has the email.
NoSuchEmail == Response(400, "Invalid email or password.")

\* Line 116: the answer when the password does not match the hash.
WrongPassword == Response(400, "Invalid email or password.")

\* Lines 110-114: SELECT * FROM users WHERE email = ?; no row answers 400.
LoginSelectUser ==
    /\ phase = "listening"
    /\ lpc = "users"
    /\ LET rows == {u \in users : u.email = lreq.email}
       IN  IF rows = {}
           THEN /\ lresp' = NoSuchEmail
                /\ lpc' = "done"
                /\ luser' = NoRow
           ELSE /\ luser' = CHOOSE u \in rows : \A v \in rows : u.id <= v.id
                /\ lpc' = "compare"
                /\ lresp' = lresp
    /\ UNCHANGED <<phase, store, records, issued, slot, lreq>>

\* A role that ignores the account's flag.
RoleOfAlwaysAdmin(user) == ADMIN

\* The role of an account row (line 119).
RoleOf(user) == IF user.is_superadmin THEN SUPERADMIN ELSE ADMIN

\* Lines 127-130: the payload is signed and returned with the token.
LoginAnswer(payload) ==
    LET token == JwtSign(payload, JWT_SECRET)
    IN  /\ lresp' = [Response(200, "") EXCEPT !.user = payload, !.token = token]
        /\ issued' = issued \cup {token}
        /\ lpc' = "done"
        /\ luser' = NoRow

\* Lines 115-121: bcrypt.compare; a mismatch answers 400.  A superadmin's
\* token is signed at once with clubId '*'; an admin's binding is read next.
LoginCompare ==
    /\ phase = "listening"
    /\ lpc = "compare"
    /\ IF ~BcryptCompare(lreq.password, luser.password_hash)
       THEN /\ lresp' = WrongPassword
            /\ lpc' = "done"
            /\ luser' = NoRow
            /\ issued' = issued
       ELSE IF RoleOf(luser) = ADMIN
       THEN /\ lpc' = "club"
            /\ UNCHANGED <<luser, lresp, issued>>
       ELSE LoginAnswer(AdminUser(luser.id, luser.email, RoleOf(luser), "*"))
    /\ UNCHANGED <<phase, store, records, slot, lreq>>

\* Lines 120-125: clubId starts as '*' and is replaced by the club_id of the
\* account's first club_admins row, when there is one.
LoginClubId(user) ==
    LET adminData == {ca \in clubAdmins : ca.user_id = user.id}
    IN  IF adminData # {} THEN (CHOOSE ca \in adminData : TRUE).club_id ELSE "*"

\* Lines 122-130 for an admin: SELECT club_id FROM club_admins, then answer.
LoginSelectClub ==
    /\ phase = "listening"
    /\ lpc = "club"
    /\ LoginAnswer(AdminUser(luser.id, luser.email, RoleOf(luser), LoginClubId(luser)))
    /\ UNCHANGED <<phase, store, records, slot, lreq>>

\* ------------------------------------------------------ protected requests
\* A token signed without the server's secret.
Forged == {JwtSign(AdminUser(1, SuperEmail, SUPERADMIN, "*"), "guessed")}

\* What a client sends as authorization header here: nothing, a token login
\* gave out, or a forged one (SpecGate goes through every other header).
ClientHeaders ==
    {NoHeader} \cup {Header(<<BEARER, SP, t>>) : t \in issued \cup Forged}

\* A request to an admin-management route arrives.
ReceiveAdmin(route, header, email, clubId, adminId) ==
    /\ phase = "listening"
    /\ pc \in {"idle", "done"}
    /\ route \in AdminRoutes
    /\ pc' = "chain"
    /\ req' = Request(route, header, clubId, email, adminId)
    /\ resp' = NoResponse
    /\ newUserId' = 0
    /\ UNCHANGED <<phase, store, records, issued, lslot>>

\* A request to a tenant-scoped write route arrives.
ReceiveContent(route, header, clubId) ==
    /\ phase = "listening"
    /\ pc \in {"idle", "done"}
    /\ route \in ContentRoutes
    /\ pc' = "chain"
    /\ req' = Request(route, header, clubId, "", 0)
    /\ resp' = NoResponse
    /\ newUserId' = 0
    /\ UNCHANGED <<phase, store, records, issued, lslot>>

\* Express runs the route's middleware chain: either a middleware answers,
\* or the handler is entered with req.user attached.
RunChain ==
    /\ phase = "listening"
    /\ pc = "chain"
    /\ LET out == Pipeline(req.route, req.header)
       IN  /\ req' = [req EXCEPT !.user = out.user]
           /\ IF out.next
              THEN pc' = "handler" /\ resp' = resp
              ELSE pc' = "done" /\ resp' = out.res
    /\ UNCHANGED <<phase, store, records, issued, newUserId, lslot>>

\* ------------------------------------------------- tenant-scoped handlers
TableOf(route) ==
    CASE route = "POST /api/clubs/:clubId/team" -> "team_members"
      [] route = "POST /api/clubs/:clubId/gallery" -> "gallery_events"
      [] route = "POST /api/clubs/:clubId/news" -> "news_articles"
      [] route = "POST /api/clubs/:clubId/blogs" -> "blog_posts"

\* INSERT INTO <table> (club_id, ...) with the path's clubId, answered 201.
InsertRecord(table) ==
    /\ phase = "listening"
    /\ pc = "handler"
    /\ req.route \in ContentRoutes /\ TableOf(req.route) = table
    /\ Cardinality(records) < MaxRecords
    /\ records' = records \cup
          {[table |-> table, club_id |-> req.clubId, id |-> Cardinality(records) + 1]}
    /\ resp' = Response(201, "")
    /\ pc' = "done"
    /\ UNCHANGED <<phase, store, issued, req, newUserId, lslot>>

PostTeam == InsertRecord("team_members")
PostGallery == InsertRecord("gallery_events")
PostNews == InsertRecord("news_articles")
PostBlogs == InsertRecord("blog_posts")

\* ------------------------------------------------ admin-management handlers
\* GET /api/admins: users LEFT JOIN club_admins, mapped to the admin view.
AdminView ==
    {AdminUser(u.id, u.email, RoleOf(u), "*") :
        u \in {v \in users : \A ca \in clubAdmins : ca.user_id # v.id}}
    \cup {AdminUser(p[1].id, p[1].email, RoleOf(p[1]), p[2].club_id) :
        p \in {q \in users \X clubAdmins : q[2].user_id = q[1].id}}

GetAdmins ==
    /\ phase = "listening"
    /\ pc = "handler"
    /\ req.route = "GET /api/admins"
    /\ resp' = [Response(200, "") EXCEPT !.admins = AdminView]
    /\ pc' = "done"
    /\ UNCHANGED <<phase, store, records, issued, req, newUserId, lslot>>

\* POST /api/admins, lines 224-229: the account row is inserted with the
\* default password; a taken email makes the INSERT throw.
PostAdminsInsertUser ==
    /\ phase = "listening"
    /\ pc = "handler"
    /\ req.route = "POST /api/admins"
    /\ IF EmailTaken(req.email)
       THEN /\ resp' = Response(500, "Internal Server Error")
            /\ pc' = "done"
            /\ UNCHANGED <<store, newUserId>>
       ELSE /\ nextId <= MaxId
            /\ users' = users \cup
                  {UserRow(nextId, req.email, BcryptHash(DefaultPassword), FALSE)}
            /\ nextId' = nextId + 1
            /\ newUserId' = nextId
            /\ pc' = "binding"
            /\ UNCHANGED <<clubAdmins, resp>>
    /\ UNCHANGED <<phase, records, issued, req, lslot>>

\* POST /api/admins, lines 230-232: the binding row is inserted and the new
\* identity answered; an undefined clubId makes execute throw.
PostAdminsInsertBinding ==
    /\ phase = "listening"
    /\ pc = "binding"
    /\ IF req.clubId = Undefined
       THEN /\ resp' = Response(500, "Internal Server Error")
            /\ clubAdmins' = clubAdmins
       ELSE /\ clubAdmins' = clubAdmins \cup
                  {[user_id |-> newUserId, club_id |-> req.clubId, role |-> ADMIN]}
            /\ resp' = [Response(201, "") EXCEPT
                          !.user = AdminUser(newUserId, req.email, ADMIN, req.clubId)]
    /\ pc' = "done"
    /\ UNCHANGED <<phase, users, nextId, records, issued, req, newUserId, lslot>>

\* POST /api/admins, line 230: the store rejects or loses the second INSERT.
PostAdminsBindingFails ==
    /\ phase = "listening"
    /\ pc = "binding"
    /\ req.clubId # Undefined
    /\ resp' = Response(500, "Internal Server Error")
    /\ pc' = "done"
    /\ UNCHANGED <<phase, store, records, issued, req, newUserId, lslot>>

\* A DELETE without the is_superadmin = FALSE condition.
DeletedRowsAnyRole(adminId) == {u \in users : u.id = adminId}

\* DELETE FROM users WHERE id = ? AND is_superadmin = FALSE
DeletedRows(adminId) == {u \in users : u.id = adminId /\ ~u.is_superadmin}

\* DELETE /api/admins/:adminId: the account goes, club_admins rows of it go
\* by ON DELETE CASCADE, and the answer is 204 either way.
DeleteAdmin ==
    /\ phase = "listening"
    /\ pc = "handler"
    /\ req.route = "DELETE /api/admins/:adminId"
    /\ LET gone == DeletedRows(req.adminId)
       IN  /\ users' = users \ gone
           /\ clubAdmins' = {ca \in clubAdmins : \A u \in gone : ca.user_id # u.id}
    /\ resp' = Response(204, "")
    /\ pc' = "done"
    /\ UNCHANGED <<phase, nextId, records, issued, req, newUserId, lslot>>

\* ------------------------------------------------------------ specifications
Bootstrap ==
    \/ GetConnection
    \/ SelectSuperAdmins
    \/ InsertSuperAdmin
    \/ BootstrapFails

Login ==
    \/ \E email \in Emails, password \in Passwords : LoginRequest(email, password)
    \/ LoginSelectUser
    \/ LoginCompare
    \/ LoginSelectClub

AdminManagement ==
    \/ \E route \in AdminRoutes, header \in ClientHeaders :
          \/ route = "GET /api/admins" /\ ReceiveAdmin(route, header, "", "", 0)
          \/ \E email \in Emails, clubId \in Clubs \cup {Undefined} :
                route = "POST /api/admins"
                    /\ ReceiveAdmin(route, header, email, clubId, 0)
          \/ \E adminId \in 1..MaxId :
                route = "DELETE /api/admins/:adminId"
                    /\ ReceiveAdmin(route, header, "", "", adminId)
    \/ GetAdmins
    \/ PostAdminsInsertUser
    \/ PostAdminsInsertBinding
    \/ PostAdminsBindingFails
    \/ DeleteAdmin

TenantContent ==
    \/ \E route \in ContentRoutes, header \in ClientHeaders, clubId \in Clubs :
          ReceiveContent(route, header, clubId)
    \/ PostTeam
    \/ PostGallery
    \/ PostNews
    \/ PostBlogs

Next ==
    \/ Bootstrap
    \/ Crash
    \/ Restart
    \/ Login
    \/ AdminManagement
    \/ RunChain

Spec == Init /\ [][Next]_vars

\* The tenant-scoped write endpoints, from a store in which bootstrap has run
\* and the superadmin has created one admin bound to a club.
InitContent ==
    /\ phase = "listening"
    /\ users = {UserRow(1, SuperEmail, BcryptHash(DefaultPassword), TRUE),
                UserRow(2, "a@x.com", BcryptHash(DefaultPassword), FALSE)}
    /\ \E club \in Clubs :
          clubAdmins = {[user_id |-> 2, club_id |-> club, role |-> ADMIN]}
    /\ nextId = 3
    /\ records = {}
    /\ issued = {}
    /\ pc = "idle" /\ req = NoRequest /\ resp = NoResponse /\ newUserId = 0
    /\ lpc = "idle" /\ lreq = NoLogin /\ luser = NoRow /\ lresp = NoResponse

NextContent ==
    \/ Login
    \/ TenantContent
    \/ RunChain

SpecContent == InitContent /\ [][NextContent]_vars

\* The gate alone, over every authorization header of at most MaxHeaderLen
\* atoms: a request has arrived at a store holding the superadmin and one
\* admin, both of whom have logged in.
RootToken == JwtSign(AdminUser(1, SuperEmail, SUPERADMIN, "*"), JWT_SECRET)
AdminToken == JwtSign(AdminUser(2, "a@x.com", ADMIN, "A"), JWT_SECRET)
Atoms == {SP, BEARER, JUNK, RootToken, AdminToken} \cup Forged

RECURSIVE Strings(_)
Strings(n) ==
    IF n = 0 THEN {<<>>}
    ELSE LET shorter == Strings(n - 1)
         IN  shorter \cup {Append(s, a) : s \in shorter, a \in Atoms}

AnyHeaders == {NoHeader} \cup {Header(v) : v \in Strings(MaxHeaderLen)}

InitGate ==
    /\ phase = "listening"
    /\ users = {UserRow(1, SuperEmail, BcryptHash(DefaultPassword), TRUE),
                UserRow(2, "a@x.com", BcryptHash(DefaultPassword), FALSE)}
    /\ clubAdmins = {[user_id |-> 2, club_id |-> "A", role |-> ADMIN]}
    /\ nextId = 3
    /\ records = {}
    /\ issued = {RootToken, AdminToken}
    /\ pc = "chain"
    /\ \E route \in ContentRoutes \cup AdminRoutes, header \in AnyHeaders :
          req = Request(route, header, "A", "", 0)
    /\ resp = NoResponse /\ newUserId = 0
    /\ lpc = "idle" /\ lreq = NoLogin /\ luser = NoRow /\ lresp = NoResponse

SpecGate == InitGate /\ [][RunChain]_vars

\* ================================================================== claims
\* The protected request has been through its middleware chain.
ChainRan == pc \in {"handler", "binding", "done"}

\* The request carries token t the standard way: "Bearer <t>".
Carries(t) == req.header = Header(<<BEARER, SP, t>>)

\* The header value has a non-empty part after its first space.
HasSecondPart(v) ==
    \E k \in 1..(Len(v) - 1) :
        /\ v[k] = SP
        /\ \A j \in 1..(k - 1) : v[j] # SP
        /\ v[k + 1] # SP

\* That part is exactly one JWT signed with the server's secret.
SecondPartVerifies(v) ==
    \E k \in 1..(Len(v) - 1) :
        /\ v[k] = SP
        /\ \A j \in 1..(k - 1) : v[j] # SP
        /\ v[k + 1].ch = "jwt"
        /\ v[k + 1].sig = <<v[k + 1].payload, JWT_SECRET>>
        /\ (k + 1 = Len(v) \/ v[k + 2] = SP)

SecondPartPayload(v) ==
    LET k == CHOOSE i \in 1..(Len(v) - 1) : v[i] = SP /\ \A j \in 1..(i - 1) : v[j] # SP
    IN  v[k + 1].payload

\* C1 (as claimed): a tenant-scoped write carrying a regular admin's token
\* scoped to club A is refused with 403 when the path's club is another one,
\* and answered 201 when the path's club is A.
TenantIsolation ==
    (pc = "done" /\ req.route \in ContentRoutes
        /\ req.user.role = ADMIN /\ req.user.clubId \in Clubs)
    => IF req.user.clubId = req.clubId
       THEN resp.status = 201
       ELSE resp.status = 403
               /\ \A r \in records : r.club_id # req.clubId

\* C2: on the admin-management routes a request carrying an issued token of
\* role ADMIN is answered 403 by the chain and leaves users and club_admins
\* alone; a handler of those routes runs only with a SUPERADMIN identity; and
\* while the server listens, users and club_admins change only in a handler of
\* those routes run for a SUPERADMIN identity.
SuperadminGate ==
    [][/\ \A t \in issued :
             (pc = "chain" /\ pc' # "chain" /\ phase' = "listening"
                 /\ req.route \in AdminRoutes /\ Carries(t)
                 /\ t.payload.role = ADMIN)
             => (pc' = "done" /\ resp'.status = 403
                    /\ users' = users /\ clubAdmins' = clubAdmins)
       /\ (pc' \in {"handler", "binding"} /\ req'.route \in AdminRoutes)
             => req'.user.role = SUPERADMIN
       /\ (phase = "listening" /\ (users' # users \/ clubAdmins' # clubAdmins))
             => (pc \in {"handler", "binding"} /\ req.route \in AdminRoutes
                    /\ req.user.role = SUPERADMIN)
      ]_vars

SuperadminGateWitness ==
    /\ pc = "done" /\ req.route = "POST /api/admins"
    /\ \E t \in issued : Carries(t) /\ t.payload.role = ADMIN
    /\ resp.status = 403

\* C3 (as claimed): the chain answers 401 exactly when the authorization
\* header is absent, 400 whenever the header is present and carries no
\* verifying token, and enters the handler only after verification.
GateByHeaderPresence ==
    ChainRan =>
        LET h == req.header
            good == h.present /\ SecondPartVerifies(h.value)
        IN  /\ resp.status = 401 <=> ~h.present
            /\ (h.present /\ ~good) => resp.status = 400
            /\ pc # "done" => good

\* C3 (amended): the chain answers 401 exactly when no token can be taken
\* from the header (the header is absent, or its value has no non-empty part
\* after the first space), 400 exactly when such a part is there and does not
\* verify, and otherwise attaches the token's payload; a handler is entered
\* only in the last case.
GateByExtractedToken ==
    ChainRan =>
        LET h == req.header
            none == ~h.present \/ ~HasSecondPart(h.value)
            good == ~none /\ SecondPartVerifies(h.value)
        IN  /\ resp.status = 401 <=> none
            /\ resp.status = 400 <=> (~none /\ ~good)
            /\ good => req.user = SecondPartPayload(h.value)
            /\ ~good => (pc = "done" /\ req.user = NoUser)

GateByExtractedTokenWitness ==
    /\ pc = "done" /\ resp.status = 401
    /\ req.header.present /\ req.header.value # <<>>

\* C4: a login for an email without an account and a login with a wrong
\* password for an existing account are answered alike, 400 with the text
\* 'Invalid email or password.'; neither issues a token or changes the store.
LoginFailureUniform ==
    [][/\ (lpc = "users" /\ lpc' # "users" /\ phase' = "listening"
              /\ \A u \in users : u.email # lreq.email)
          => (lpc' = "done" /\ lresp'.status = 400
                 /\ lresp'.text = "Invalid email or password.")
       /\ (lpc = "compare" /\ lpc' # "compare" /\ phase' = "listening"
              /\ luser.password_hash # BcryptHash(lreq.password))
          => (lpc' = "done" /\ lresp'.status = 400
                 /\ lresp'.text = "Invalid email or password.")
       /\ (lpc' = "done" /\ lresp'.status # 200)
          => (/\ lresp' = [status |-> 400, text |-> "Invalid email or password.",
                           user |-> NoUser, token |-> [ch |-> "none"],
                           admins |-> {}]
              /\ (lpc # "done" => /\ issued' = issued /\ users' = users
                                  /\ clubAdmins' = clubAdmins /\ nextId' = nextId))
      ]_vars

LoginFailureUniformWitness ==
    /\ lpc = "done" /\ lresp.status = 400
    /\ lreq.password = "wrong"
    /\ \E u \in users : u.email = lreq.email

\* C5: a delete-admin request whose target is a superadmin account removes
\* nothing; one whose target is another account removes that account and its
\* club_admins rows and nothing else; no step ever removes a superadmin.
DeleteSparesSuperadmin ==
    [][/\ (pc = "handler" /\ req.route = "DELETE /api/admins/:adminId"
              /\ pc' = "done")
          => IF \E u \in users : u.id = req.adminId /\ u.is_superadmin
             THEN users' = users /\ clubAdmins' = clubAdmins
             ELSE /\ users' = {u \in users : u.id # req.adminId}
                  /\ clubAdmins' = {ca \in clubAdmins : ca.user_id # req.adminId}
       /\ \A u \in users : u.is_superadmin => u \in users'
      ]_vars

DeleteSparesSuperadminWitness ==
    /\ pc = "done" /\ req.route = "DELETE /api/admins/:adminId"
    /\ resp.status = 204
    /\ \E u \in users : u.id = req.adminId /\ u.is_superadmin

\* C6: there is never more than one superadmin account; the bootstrap reaches
\* its INSERT only while the store holds none, and the server listens only
\* with exactly one.
BootstrapIdempotent ==
    /\ Cardinality(SuperAdmins) <= 1
    /\ phase = "insert" => SuperAdmins = {}
    /\ phase = "listening" => Cardinality(SuperAdmins) = 1

\* The server listens again after a restart: a login was answered before
\* (a token is out) and the process that answered it is gone.
BootstrapIdempotentWitness ==
    /\ phase = "listening" /\ issued # {}
    /\ lpc = "idle" /\ pc = "idle"
    /\ Cardinality(SuperAdmins) = 1

\* C7: the server starts listening only at the end of a bootstrap that found
\* or created a superadmin; a process that exited stays exited; requests are
\* in flight only while the server listens and a superadmin exists.
StartupOrdering ==
    [][/\ (phase' = "listening" /\ phase # "listening")
          => \/ phase = "select" /\ SuperAdmins # {}
             \/ phase = "insert" /\ SuperAdmins' # {}
       /\ phase = "exited" => phase' \in {"exited", "connect"}
       /\ (pc' \notin {"idle", "done"} \/ lpc' \notin {"idle", "done"})
          => (phase' = "listening" /\ SuperAdmins' # {})
      ]_vars

StartupOrderingWitness ==
    /\ phase = "listening" /\ pc = "handler" /\ SuperAdmins # {}

WildcardOnlySuperadmin ==
    \A t \in issued :
        /\ t.payload.clubId = "*" => t.payload.role = SUPERADMIN
        /\ t.payload.role = ADMIN => t.payload.clubId \in Clubs

\* C10: a request carrying a token login issued passes authMiddleware with
\* the token's own payload attached, and passes superadminMiddleware when that
\* payload's role is SUPERADMIN, whatever the store holds by then.
TokensStateless ==
    \A t \in issued :
        (ChainRan /\ Carries(t))
        => /\ req.user = t.payload
           /\ resp.status \notin {400, 401}
           /\ t.payload.role = SUPERADMIN => resp.status # 403

\* A token passes the gate after the account it was issued for was deleted.
TokensStatelessWitness ==
    \E t \in issued :
        /\ ChainRan /\ Carries(t)
        /\ req.user = t.payload
        /\ t.payload.role = ADMIN
        /\ \A u \in users : u.id # t.payload.id

====
